---------------------------- MODULE Spec2Model ----------------------------
(***************************************************************************)
(* WASAPIPlayer::worker (client/player/wasapi_player.cpp): the render      *)
(* thread of the WASAPI player, the Lifecycle Controller that clears       *)
(* active_, and the two collaborators the loop talks to (the audio         *)
(* endpoint and the timed stream source).                                  *)
(***************************************************************************)
EXTENDS Integers, Sequences, FiniteSets, TLC

(***************************************************************************)
(* Bounds of the model.                                                    *)
(***************************************************************************)
\* pacing signals the endpoint raises in a run of Spec
MaxIter == 3
\* largest k of the scenario "k chunks, one starvation, k chunks"
MaxK == 5

(***************************************************************************)
(* HRESULT values and the FAILED test of CHECK_HR.                         *)
(***************************************************************************)
S_OK == 0
E_FAIL == -2147467259
AUDCLNT_E_BUFFER_SIZE_NOT_ALIGNED == -2004287463
ERROR_TIMEOUT == 1460

\* variant: every non-zero status counts as a failure
FAILED_NonZero(hres) == hres # S_OK

\* FAILED(hres): the severity bit of the 32-bit signed HRESULT
FAILED(hres) == hres < 0

(***************************************************************************)
(* UINT64 arithmetic of the drift expression.  A UINT64 is kept as its 16  *)
(* hexadecimal digits, least significant first, so that products wrap      *)
(* modulo 2^64 exactly as the C++ operands do.                             *)
(***************************************************************************)
HexBase == 16
U64Digits == 16
MicrosPerSec == 1000000

RECURSIVE ToDigits(_, _)
ToDigits(n, k) ==
    IF k = 0 THEN <<>> ELSE <<n % HexBase>> \o ToDigits(n \div HexBase, k - 1)

\* the UINT64 holding the non-negative integer n
U64(n) == ToDigits(n, U64Digits)

RECURSIVE MulCarry(_, _, _, _)
MulCarry(a, m, i, carry) ==
    IF i > U64Digits THEN <<>>
    ELSE LET v == a[i] * m + carry
         IN  <<v % HexBase>> \o MulCarry(a, m, i + 1, v \div HexBase)

\* a * m in UINT64 (the carry out of the top digit is dropped)
U64Mul(a, m) == MulCarry(a, m, 1, 0)

RECURSIVE DivStep(_, _, _, _)
DivStep(a, m, i, rem) ==
    IF i = 0 THEN <<>>
    ELSE LET cur == rem * HexBase + a[i]
         IN  Append(DivStep(a, m, i - 1, cur % m), cur \div m)

\* a / m in UINT64: integer division truncates
U64Div(a, m) == DivStep(a, m, U64Digits, 0)

RECURSIVE SubBorrow(_, _, _, _)
SubBorrow(a, b, i, borrow) ==
    IF i > U64Digits THEN <<>>
    ELSE LET v == a[i] - b[i] - borrow
         IN  IF v < 0 THEN <<v + HexBase>> \o SubBorrow(a, b, i + 1, 1)
                      ELSE <<v>> \o SubBorrow(a, b, i + 1, 0)

\* a - b in UINT64 (wraps modulo 2^64 when b > a)
U64Sub(a, b) == SubBorrow(a, b, 1, 0)

RECURSIVE DigitsValue(_, _)
DigitsValue(a, i) ==
    IF i > U64Digits THEN 0
    ELSE IF \A j \in i..U64Digits : a[j] = 0 THEN 0
    ELSE a[i] + HexBase * DigitsValue(a, i + 1)

\* variant: the difference read as the unsigned value it was computed as: a wrapped
\* difference is a huge positive count (shown as the largest 32-bit one)
ToRep_Unsigned(a) ==
    IF \E j \in 8..U64Digits : a[j] # 0 THEN 2147483647 ELSE DigitsValue(a, 1)

\* microseconds(x): the UINT64 x converted to the signed 64-bit rep
ToRep(a) ==
    IF a[U64Digits] >= HexBase \div 2
    THEN 0 - DigitsValue(U64Sub(U64(0), a), 1)
    ELSE DigitsValue(a, 1)

\* the argument of microseconds(...) in the call of getPlayerChunk:
\*   microseconds(((bufferPosition * 1000000) / nSamplesPerSec) -
\*                ((position * 1000000) / frequency))
\* (each intermediate UINT64 is bound as the member of a one-element set, so
\* that it is computed once)
TimeOffset(bufPos, rate, pos, freq) ==
    LET logical  == { U64Div(p, rate) :
                        p \in { U64Mul(x, MicrosPerSec) : x \in {U64(bufPos)} } }
        hardware == { U64Div(p, freq) :
                        p \in { U64Mul(x, MicrosPerSec) : x \in {U64(pos)} } }
    IN  CHOOSE t \in { ToRep(d) :
                         d \in { U64Sub(l, h) : l \in logical, h \in hardware } } :
           TRUE


(***************************************************************************)
(* State.                                                                  *)
(***************************************************************************)
VARIABLES
    pc,               \* position of the render thread in worker()
    active_,          \* Player::active_, cleared by the Lifecycle Controller
    idx,              \* pcmDevice_.idx
    device,           \* TRUE when the IMMDevicePtr holds a device
    hr,               \* the local HRESULT
    sampleRate,       \* waveformat->nSamplesPerSec
    bufferFrameCount, \* frames of one Period
    frequency,        \* tick frequency read by GetFrequency
    position,         \* last hardware clock reading
    bufferPosition,   \* frames handed to the endpoint
    queueBuffer,      \* the chunk in queueBuffer and the volume passes over it
    offset,           \* last time offset passed to getPlayerChunk
    held,             \* resources the worker holds
    started,          \* the endpoint is started
    sigLeft,          \* pacing signals the endpoint will still raise
    source,           \* the stream source: free, or a script of answers
    ops,              \* operations invoked since the last pacing wait returned
    pollEnd,          \* how the last recovery poll ended
    exitBy,           \* why the loop was left
    timedOut,         \* a pacing wait has timed out
    opFail,           \* the last failure an operation reported: "none",
                      \* "unchecked" (the result is not looked at),
                      \* "misaligned" (the first Initialize) or the operation
    fatal,            \* the operation CHECK_HR threw for
    stopPc,           \* where the render thread was when stop was requested
    retStop,          \* the stop signal was set when the last pacing wait returned
    commitsAfterStop, \* GetBuffer/ReleaseBuffer calls made with the signal set
    waitRetsAfterStop,\* waits that returned with the signal set
    results,          \* answers of getPlayerChunk so far
    bpHist,           \* values written to bufferPosition so far
    volApplied,       \* chunks adjustVolume was applied to, in order
    committed,        \* chunks released to the endpoint, in order
    recov,            \* entries into a recovery branch
    dtor,             \* the destructor has run: "none", or whether its stop
                      \* was the "first" or the "second" request
    posFresh          \* position was written by GetPosition since the last
                      \* pacing wait returned

vars == <<pc, active_, idx, device, hr, sampleRate, bufferFrameCount, frequency,
          position, bufferPosition, queueBuffer, offset, held, started, sigLeft,
          source, ops, pollEnd, exitBy, timedOut, opFail, fatal, stopPc, retStop,
          commitsAfterStop, waitRetsAfterStop, results, bpHist, volApplied,
          committed, recov, dtor, posFresh>>

cfgVars  == <<idx, sampleRate>>
lifeVars == <<dtor, posFresh>>
devVars  == <<device, bufferFrameCount, frequency>>
bufVars  == <<position, bufferPosition, queueBuffer, offset>>
envVars  == <<started, sigLeft, source>>
histVars == <<results, bpHist, volApplied, committed, recov>>
stopVars == <<stopPc, retStop, waitRetsAfterStop>>
loopGhost == <<pollEnd, exitBy, timedOut>>

(***************************************************************************)
(* Input sets.                                                             *)
(***************************************************************************)
DeviceIndexes == {0, 1}
SampleRates   == {48000}
BufferSizes   == {480}
Frequencies   == {10000000}
HwTicks       == {0, 5000000}
CounterCap    == 3

\* the operands of the time offset tried on their own
DriftPositions   == {0, 480, 960, 44100, 48000, 96000}
DriftRates       == {44100, 48000}
DriftTicks       == {0, 1, 3333333, 5000000, 10000000, 30000000}
DriftFrequencies == {48000, 1193182, 10000000}

Exited    == {"done", "thrown", "crashed"}
CommitOps == {"GetBuffer", "ReleaseBuffer"}
\* released by no destructor: IAudioRenderClient* and IAudioClock* are raw
RawPointers == {"renderClient", "clock"}

Min(a, b) == IF a < b THEN a ELSE b
Last(s) == s[Len(s)]

\* leaving worker(), by return or by exception: the scoped owners release
Unwind(h) == h \cap RawPointers

\* an operation is invoked on the endpoint or the source
Invoke(op) ==
    /\ ops' = Append(ops, op)
    /\ commitsAfterStop' =
          IF ~active_ /\ op \in CommitOps
          THEN Min(commitsAfterStop + 1, CounterCap) ELSE commitsAfterStop

\* the environment's record of a result: a failure of a checked operation
Report(hres, op) ==
    opFail' = IF hres < 0 THEN op ELSE opFail

\* the operation did what it was asked to
Ok(hres) == hres >= 0

\* CHECK_HR(hres) after `op`: throws SnapException, else goes on to `next`
\* holding what the operation acquired
CHECK_HR(hres, op, next, acquired) ==
    IF FAILED(hres)
    THEN /\ pc' = "thrown"
         /\ fatal' = op
         /\ held' = Unwind(held)
    ELSE /\ pc' = next
         /\ fatal' = fatal
         /\ held' = held \cup acquired

Results == {S_OK, E_FAIL}

(***************************************************************************)
(* Session setup, lines 180-288.                                           *)
(***************************************************************************)
\* a checked setup call with no effect but what it acquires
SetupCall(here, op, next, acquired) ==
    /\ pc = here
    /\ \E r \in Results :
          /\ hr' = r
          /\ Report(r, op)
          /\ CHECK_HR(r, op, next, acquired)
    /\ Invoke(op)
    /\ UNCHANGED <<active_, lifeVars,
                   cfgVars, devVars, bufVars, envVars, histVars,
                   stopVars, loopGhost>>

CoCreate == SetupCall("CoCreateInstance", "CoCreateInstance", "GetDevice",
                      {"deviceEnumerator"})

\* lines 189-202: the default endpoint, or item idx-1 of the enumeration,
\* whose result is not looked at
GetDevice ==
    /\ pc = "GetDevice"
    /\ IF idx = 0
       THEN \E r \in Results :
               /\ hr' = r
               /\ Report(r, "GetDefaultAudioEndpoint")
               /\ CHECK_HR(r, "GetDefaultAudioEndpoint", "Activate", {"device"})
               /\ device' = Ok(r)
               /\ Invoke("GetDefaultAudioEndpoint")
       ELSE \E r \in Results, item \in Results :
               /\ hr' = r
               /\ IF ~Ok(r)
                  THEN /\ Report(r, "EnumAudioEndpoints")
                       /\ CHECK_HR(r, "EnumAudioEndpoints", "Activate", {})
                       /\ device' = device
                       /\ Invoke("EnumAudioEndpoints")
                  ELSE /\ opFail' = IF Ok(item) THEN opFail ELSE "unchecked"
                       /\ CHECK_HR(r, "EnumAudioEndpoints", "Activate",
                                   IF Ok(item) THEN {"device"} ELSE {})
                       /\ device' = Ok(item)
                       /\ ops' = ops \o <<"EnumAudioEndpoints", "Item">>
                       /\ commitsAfterStop' = commitsAfterStop
    /\ UNCHANGED <<active_, lifeVars,
                   cfgVars, bufferFrameCount, frequency, bufVars,
                   envVars, histVars, stopVars, loopGhost>>

\* line 206: device-> on an empty IMMDevicePtr raises a COM error
Activate ==
    /\ pc = "Activate"
    /\ IF device
       THEN \E r \in Results :
               /\ hr' = r
               /\ Report(r, "Activate")
               /\ CHECK_HR(r, "Activate", "IsFormatSupported", {"audioClient"})
       ELSE /\ hr' = hr
            /\ opFail' = opFail
            /\ pc' = "thrown"
            /\ fatal' = "Activate"
            /\ held' = Unwind(held)
    /\ Invoke("Activate")
    /\ UNCHANGED <<active_, lifeVars,
                   cfgVars, devVars, bufVars, envVars, histVars,
                   stopVars, loopGhost>>

IsFormatSupported == SetupCall("IsFormatSupported", "IsFormatSupported",
                               "GetDevicePeriod", {})

GetDevicePeriod == SetupCall("GetDevicePeriod", "GetDevicePeriod", "Initialize", {})

\* lines 221-228: a misaligned buffer size is not checked here but retried
Initialize ==
    /\ pc = "Initialize"
    /\ \E r \in Results \cup {AUDCLNT_E_BUFFER_SIZE_NOT_ALIGNED} :
          /\ hr' = r
          /\ IF r = AUDCLNT_E_BUFFER_SIZE_NOT_ALIGNED
             THEN /\ opFail' = "misaligned"
                  /\ pc' = "AlignGetBufferSize"
                  /\ fatal' = fatal
                  /\ held' = held
             ELSE /\ Report(r, "Initialize")
                  /\ CHECK_HR(r, "Initialize", "CreateEvent", {})
    /\ Invoke("Initialize")
    /\ UNCHANGED <<active_, lifeVars,
                   cfgVars, devVars, bufVars, envVars, histVars,
                   stopVars, loopGhost>>

\* lines 230-232
AlignGetBufferSize == SetupCall("AlignGetBufferSize", "GetBufferSize",
                                "AlignActivate", {})

\* lines 233-236: the first client is released, the device activated again
AlignActivate ==
    /\ pc = "AlignActivate"
    /\ \E r \in Results :
          /\ hr' = r
          /\ Report(r, "Activate")
          /\ CHECK_HR(r, "Activate", "AlignInitialize", {})
    /\ Invoke("Activate")
    /\ UNCHANGED <<active_, lifeVars,
                   cfgVars, devVars, bufVars, envVars, histVars,
                   stopVars, loopGhost>>

\* lines 237-245: the second Initialize is checked whatever it reports
AlignInitialize ==
    /\ pc = "AlignInitialize"
    /\ \E r \in Results \cup {AUDCLNT_E_BUFFER_SIZE_NOT_ALIGNED} :
          /\ hr' = r
          /\ Report(r, "Initialize")
          /\ CHECK_HR(r, "Initialize", "CreateEvent", {})
    /\ Invoke("Initialize")
    /\ UNCHANGED <<active_, lifeVars,
                   cfgVars, devVars, bufVars, envVars, histVars,
                   stopVars, loopGhost>>

\* lines 248-250: a NULL handle is turned into CHECK_HR(E_FAIL)
CreateEvent ==
    /\ pc = "CreateEvent"
    /\ \E handle \in BOOLEAN :
          IF handle
          THEN /\ pc' = "SetEventHandle"
               /\ held' = held \cup {"eventHandle"}
               /\ UNCHANGED <<opFail, fatal>>
          ELSE /\ Report(E_FAIL, "CreateEvent")
               /\ CHECK_HR(E_FAIL, "CreateEvent", "SetEventHandle", {})
    /\ hr' = hr
    /\ Invoke("CreateEvent")
    /\ UNCHANGED <<active_, lifeVars,
                   cfgVars, devVars, bufVars, envVars, histVars,
                   stopVars, loopGhost>>

SetEventHandle == SetupCall("SetEventHandle", "SetEventHandle", "GetBufferSize", {})

\* lines 255-257
GetBufferSize ==
    /\ pc = "GetBufferSize"
    /\ \E r \in Results, n \in BufferSizes :
          /\ hr' = r
          /\ Report(r, "GetBufferSize")
          /\ CHECK_HR(r, "GetBufferSize", "GetRenderService", {})
          /\ bufferFrameCount' = IF Ok(r) THEN n ELSE bufferFrameCount
    /\ Invoke("GetBufferSize")
    /\ UNCHANGED <<active_, lifeVars,
                   cfgVars, device, frequency, bufVars, envVars,
                   histVars, stopVars, loopGhost>>

GetRenderService == SetupCall("GetRenderService", "GetService",
                              "GetClockService", {"renderClient"})

GetClockService == SetupCall("GetClockService", "GetService",
                             "SetThreadCharacteristics", {"clock"})

\* lines 274-278
SetThreadCharacteristics ==
    /\ pc = "SetThreadCharacteristics"
    /\ \E handle \in BOOLEAN :
          IF handle
          THEN /\ pc' = "Start"
               /\ held' = held \cup {"taskHandle"}
               /\ UNCHANGED <<opFail, fatal>>
          ELSE /\ Report(E_FAIL, "AvSetMmThreadCharacteristics")
               /\ CHECK_HR(E_FAIL, "AvSetMmThreadCharacteristics", "Start", {})
    /\ hr' = hr
    /\ Invoke("AvSetMmThreadCharacteristics")
    /\ UNCHANGED <<active_, lifeVars,
                   cfgVars, devVars, bufVars, envVars, histVars,
                   stopVars, loopGhost>>

\* lines 281-286
Start ==
    /\ pc = "Start"
    /\ \E r \in Results :
          /\ hr' = r
          /\ Report(r, "Start")
          /\ CHECK_HR(r, "Start", "GetFrequency", {"queueBuffer"})
          /\ started' = Ok(r)
    /\ Invoke("Start")
    /\ UNCHANGED <<active_, lifeVars,
                   cfgVars, devVars, bufVars, sigLeft, source,
                   histVars, stopVars, loopGhost>>

\* lines 287-288: the result is dropped; on failure frequency keeps the
\* indeterminate value it was declared with
GetFrequency ==
    /\ pc = "GetFrequency"
    /\ \E ok \in BOOLEAN, f \in Frequencies, junk \in Frequencies \cup {0} :
          /\ frequency' = IF ok THEN f ELSE junk
          /\ opFail' = IF ok THEN opFail ELSE "unchecked"
    /\ pc' = "loop"
    /\ Invoke("GetFrequency")
    /\ UNCHANGED <<active_, lifeVars,
                   cfgVars, device, bufferFrameCount, hr, bufVars,
                   held, envVars, histVars, stopVars, loopGhost, fatal>>

(***************************************************************************)
(* The render loop, lines 290-350.                                         *)
(***************************************************************************)
\* line 290: while (active_); falling out of the loop returns from worker()
LoopHead ==
    /\ pc = "loop"
    /\ IF active_
       THEN /\ pc' = "wait"
            /\ UNCHANGED <<held, exitBy>>
       ELSE /\ pc' = "done"
            /\ exitBy' = "head"
            /\ held' = Unwind(held)
    /\ UNCHANGED <<active_, lifeVars,
                   cfgVars, devVars, hr, bufVars, envVars, histVars,
                   stopVars, pollEnd, timedOut, opFail, fatal, ops,
                   commitsAfterStop>>

\* lines 292-293: WaitForSingleObject(eventHandle, 2000) returns, signaled
\* by the endpoint or after the timeout
PacingWait ==
    /\ pc = "wait"
    /\ \E signaled \in BOOLEAN :
          /\ signaled => sigLeft > 0
          /\ sigLeft' = IF signaled THEN sigLeft - 1 ELSE sigLeft
          /\ pc' = IF signaled THEN "check" ELSE "timeout"
          /\ timedOut' = (timedOut \/ ~signaled)
    /\ ops' = <<>>
    /\ pollEnd' = "none"
    /\ retStop' = ~active_
    /\ waitRetsAfterStop' =
          IF active_ THEN waitRetsAfterStop
          ELSE Min(waitRetsAfterStop + 1, CounterCap)
    /\ posFresh' = FALSE
    /\ UNCHANGED <<active_, dtor, cfgVars, devVars, hr, bufVars, held, started,
                   source, histVars, stopPc, exitBy, opFail, fatal,
                   commitsAfterStop>>

\* lines 296-297: the timeout is logged and handed to CHECK_HR
TimeoutLog ==
    /\ pc = "timeout"
    /\ CHECK_HR(ERROR_TIMEOUT, "WaitForSingleObject", "t_stop", {})
    /\ recov' = IF FAILED(ERROR_TIMEOUT) THEN recov ELSE recov + 1
    /\ UNCHANGED <<active_, lifeVars,
                   cfgVars, devVars, hr, bufVars, envVars, results,
                   bpHist, volApplied, committed, stopVars, loopGhost, opFail,
                   ops, commitsAfterStop>>

\* variant: the recovery resets the endpoint without stopping it
RecStop_NoStop(here, next) ==
    /\ pc = here
    /\ pc' = next
    /\ UNCHANGED <<active_, lifeVars,
                   cfgVars, devVars, hr, bufVars, held, envVars,
                   histVars, stopVars, loopGhost, opFail, fatal, ops,
                   commitsAfterStop>>

\* audioClient->Stop(); CHECK_HR(hr);
RecStop(here, next) ==
    /\ pc = here
    /\ \E r \in Results :
          /\ hr' = r
          /\ Report(r, "Stop")
          /\ CHECK_HR(r, "Stop", next, {})
          /\ started' = IF Ok(r) THEN FALSE ELSE started
    /\ Invoke("Stop")
    /\ UNCHANGED <<active_, lifeVars,
                   cfgVars, devVars, bufVars, sigLeft, source,
                   histVars, stopVars, loopGhost>>

\* audioClient->Reset(); CHECK_HR(hr);
RecReset(here, next) ==
    /\ pc = here
    /\ \E r \in Results :
          /\ hr' = r
          /\ Report(r, "Reset")
          /\ CHECK_HR(r, "Reset", next, {})
    /\ Invoke("Reset")
    /\ UNCHANGED <<active_, lifeVars,
                   cfgVars, devVars, bufVars, envVars, histVars,
                   stopVars, loopGhost>>

\* while (active_ && ...): the left operand
RecPollCheck(here, poll, next) ==
    /\ pc = here
    /\ IF active_
       THEN /\ pc' = poll
            /\ pollEnd' = pollEnd
       ELSE /\ pc' = next
            /\ pollEnd' = "stop"
    /\ UNCHANGED <<active_, lifeVars,
                   cfgVars, devVars, hr, bufVars, held, envVars,
                   histVars, stopVars, exitBy, timedOut, opFail, fatal, ops,
                   commitsAfterStop>>

\* variant: the result of waitForChunk is read the wrong way round
RecPoll_Inverted(here, check, next) ==
    /\ pc = here
    /\ \E data \in BOOLEAN :
          /\ pc' = IF data THEN check ELSE next
          /\ pollEnd' = IF data THEN "data" ELSE pollEnd
    /\ ops' = IF ops # <<>> /\ Last(ops) = "waitForChunk"
              THEN ops ELSE Append(ops, "waitForChunk")
    /\ waitRetsAfterStop' =
          IF active_ THEN waitRetsAfterStop
          ELSE Min(waitRetsAfterStop + 1, CounterCap)
    /\ UNCHANGED <<active_, lifeVars,
                   cfgVars, devVars, hr, bufVars, held, envVars,
                   histVars, stopPc, retStop, exitBy, timedOut, opFail, fatal,
                   commitsAfterStop>>

\* ... !stream_->waitForChunk(100ms)) LOG "Waiting for chunk"
RecPoll(here, check, next) ==
    /\ pc = here
    /\ \E data \in BOOLEAN :
          /\ pc' = IF data THEN next ELSE check
          /\ pollEnd' = IF data THEN "data" ELSE pollEnd
    /\ ops' = IF ops # <<>> /\ Last(ops) = "waitForChunk"
              THEN ops ELSE Append(ops, "waitForChunk")
    /\ waitRetsAfterStop' =
          IF active_ THEN waitRetsAfterStop
          ELSE Min(waitRetsAfterStop + 1, CounterCap)
    /\ UNCHANGED <<active_, lifeVars,
                   cfgVars, devVars, hr, bufVars, held, envVars,
                   histVars, stopPc, retStop, exitBy, timedOut, opFail, fatal,
                   commitsAfterStop>>

TimeoutStop      == RecStop("t_stop", "t_reset")
TimeoutReset     == RecReset("t_reset", "t_pollchk")
TimeoutPollCheck == RecPollCheck("t_pollchk", "t_poll", "t_start")
TimeoutPoll      == RecPoll("t_poll", "t_pollchk", "t_start")

\* lines 307-310: Start, bufferPosition = 0, break
TimeoutStart ==
    /\ pc = "t_start"
    /\ \E r \in Results :
          /\ hr' = r
          /\ Report(r, "Start")
          /\ started' = (started \/ Ok(r))
          /\ IF FAILED(r)
             THEN /\ CHECK_HR(r, "Start", "done", {})
                  /\ UNCHANGED <<bufferPosition, bpHist, exitBy>>
             ELSE /\ pc' = "done"
                  /\ fatal' = fatal
                  /\ held' = Unwind(held)
                  /\ exitBy' = "timeout"
                  /\ bufferPosition' = 0
                  /\ bpHist' = Append(bpHist, 0)
    /\ Invoke("Start")
    /\ UNCHANGED <<active_, lifeVars,
                   cfgVars, devVars, position, queueBuffer, offset,
                   sigLeft, source, results, volApplied, committed, recov,
                   stopVars, pollEnd, timedOut>>

\* variant: the stop signal is not looked at again after the wait
Check_NoRecheck ==
    /\ pc = "check"
    /\ pc' = "GetPosition"
    /\ UNCHANGED <<active_, lifeVars,
                   cfgVars, devVars, hr, bufVars, envVars, histVars,
                   stopVars, pollEnd, timedOut, opFail, fatal, ops,
                   commitsAfterStop, held, exitBy>>

\* lines 313-315: if (!active_) break;
Check ==
    /\ pc = "check"
    /\ IF active_
       THEN /\ pc' = "GetPosition"
            /\ UNCHANGED <<held, exitBy>>
       ELSE /\ pc' = "done"
            /\ exitBy' = "check"
            /\ held' = Unwind(held)
    /\ UNCHANGED <<active_, lifeVars,
                   cfgVars, devVars, hr, bufVars, envVars, histVars,
                   stopVars, pollEnd, timedOut, opFail, fatal, ops,
                   commitsAfterStop>>

\* line 317: the result is dropped; on failure position keeps its value
GetPosition ==
    /\ pc = "GetPosition"
    /\ \E ok \in BOOLEAN, ticks \in HwTicks :
          /\ position' = IF ok THEN ticks ELSE position
          /\ opFail' = IF ok THEN opFail ELSE "unchecked"
          /\ posFresh' = (posFresh \/ ok)
    /\ pc' = "getPlayerChunk"
    /\ Invoke("GetPosition")
    /\ UNCHANGED <<active_, dtor, cfgVars, devVars, hr, bufferPosition, queueBuffer,
                   offset, held, envVars, histVars, stopVars, loopGhost, fatal>>

Delivered(rs) == Len(SelectSeq(rs, LAMBDA b : b))

\* the operands the chunk request can meet, and the time offset of each,
\* computed once
OffsetArgs ==
    ({n * b : n \in 0..(MaxIter + MaxK), b \in BufferSizes} \cup DriftPositions)
        \X (SampleRates \cup DriftRates)
        \X (HwTicks \cup DriftTicks)
        \X (Frequencies \cup DriftFrequencies)

TimeOffsets ==
    {<<a, TimeOffset(a[1], a[2], a[3], a[4])>> : a \in OffsetArgs}

\* lines 320-321 on the current values of the locals
CurrentOffset ==
    LET a == <<bufferPosition, sampleRate, position, frequency>>
    IN  IF a \in OffsetArgs THEN (CHOOSE e \in TimeOffsets : e[1] = a)[2]
        ELSE TimeOffset(bufferPosition, sampleRate, position, frequency)

\* the answers the source may give to the next request
Answers ==
    IF source.scripted
    THEN IF source.rest = <<>> THEN {} ELSE {Head(source.rest)}
    ELSE BOOLEAN

\* lines 319-322 and 333-336: the chunk request with the time offset; a
\* division by a zero frequency ends the process
GetPlayerChunk ==
    /\ pc = "getPlayerChunk"
    /\ IF frequency = 0
       THEN /\ pc' = "crashed"
            /\ UNCHANGED <<offset, results, source, queueBuffer, recov>>
       ELSE \E r \in Answers :
               /\ pc' = IF r THEN "adjustVolume" ELSE "s_stop"
               /\ offset' = CurrentOffset
               /\ results' = Append(results, r)
               /\ source' = IF source.scripted
                            THEN [source EXCEPT !.rest = Tail(@)] ELSE source
               /\ queueBuffer' = IF r THEN [chunk |-> Delivered(results) + 1,
                                            vol |-> 0]
                                 ELSE queueBuffer
               /\ recov' = IF r THEN recov ELSE recov + 1
    /\ Invoke("getPlayerChunk")
    /\ UNCHANGED <<active_, lifeVars,
                   cfgVars, devVars, hr, position, bufferPosition,
                   held, started, sigLeft, bpHist, volApplied, committed,
                   stopVars, loopGhost, opFail, fatal>>

\* line 324
AdjustVolume ==
    /\ pc = "adjustVolume"
    /\ queueBuffer' = [queueBuffer EXCEPT !.vol = @ + 1]
    /\ volApplied' = Append(volApplied, queueBuffer.chunk)
    /\ pc' = "GetBuffer"
    /\ Invoke("adjustVolume")
    /\ UNCHANGED <<active_, lifeVars,
                   cfgVars, devVars, hr, position, bufferPosition,
                   offset, held, envVars, results, bpHist, committed, recov,
                   stopVars, loopGhost, opFail, fatal>>

\* variant: the result of GetBuffer is not checked
GetBuffer_Unchecked ==
    /\ pc = "GetBuffer"
    /\ \E r \in Results :
          /\ hr' = r
          /\ Report(r, "GetBuffer")
    /\ pc' = "ReleaseBuffer"
    /\ Invoke("GetBuffer")
    /\ UNCHANGED <<active_, lifeVars,
                   cfgVars, devVars, bufVars, envVars, histVars,
                   stopVars, loopGhost, held, fatal>>

\* lines 325-326
GetBuffer ==
    /\ pc = "GetBuffer"
    /\ \E r \in Results :
          /\ hr' = r
          /\ Report(r, "GetBuffer")
          /\ CHECK_HR(r, "GetBuffer", "ReleaseBuffer", {})
    /\ Invoke("GetBuffer")
    /\ UNCHANGED <<active_, lifeVars,
                   cfgVars, devVars, bufVars, envVars, histVars,
                   stopVars, loopGhost>>

\* variant: the position is advanced by one frame instead of one Period
ReleaseBuffer_OneFrame ==
    /\ pc = "ReleaseBuffer"
    /\ \E r \in Results :
          /\ hr' = r
          /\ Report(r, "ReleaseBuffer")
          /\ CHECK_HR(r, "ReleaseBuffer", "loop", {})
          /\ committed' = IF Ok(r) THEN Append(committed, queueBuffer)
                          ELSE committed
          /\ IF FAILED(r)
             THEN UNCHANGED <<bufferPosition, bpHist>>
             ELSE /\ bufferPosition' = bufferPosition + 1
                  /\ bpHist' = Append(bpHist, bufferPosition')
    /\ Invoke("ReleaseBuffer")
    /\ UNCHANGED <<active_, lifeVars,
                   cfgVars, devVars, position, queueBuffer, offset,
                   envVars, results, volApplied, recov, stopVars, loopGhost>>

\* lines 327-331: memcpy, ReleaseBuffer, bufferPosition += bufferFrameCount
ReleaseBuffer ==
    /\ pc = "ReleaseBuffer"
    /\ \E r \in Results :
          /\ hr' = r
          /\ Report(r, "ReleaseBuffer")
          /\ CHECK_HR(r, "ReleaseBuffer", "loop", {})
          /\ committed' = IF Ok(r) THEN Append(committed, queueBuffer)
                          ELSE committed
          /\ IF FAILED(r)
             THEN UNCHANGED <<bufferPosition, bpHist>>
             ELSE /\ bufferPosition' = bufferPosition + bufferFrameCount
                  /\ bpHist' = Append(bpHist, bufferPosition')
    /\ Invoke("ReleaseBuffer")
    /\ UNCHANGED <<active_, lifeVars,
                   cfgVars, devVars, position, queueBuffer, offset,
                   envVars, results, volApplied, recov, stopVars, loopGhost>>

StarvedStop      == RecStop("s_stop", "s_reset")
StarvedReset     == RecReset("s_reset", "s_pollchk")
StarvedPollCheck == RecPollCheck("s_pollchk", "s_poll", "s_start")
StarvedPoll      == RecPoll("s_poll", "s_pollchk", "s_start")

\* variant: the position survives the recovery
StarvedStart_KeepPosition ==
    /\ pc = "s_start"
    /\ \E r \in Results :
          /\ hr' = r
          /\ Report(r, "Start")
          /\ started' = (started \/ Ok(r))
          /\ CHECK_HR(r, "Start", "loop", {})
    /\ Invoke("Start")
    /\ UNCHANGED <<active_, lifeVars,
                   cfgVars, devVars, bufVars, sigLeft, source,
                   histVars, stopVars, loopGhost>>

\* variant: the starved branch ends with the break of the timeout branch
StarvedStart_Break ==
    /\ pc = "s_start"
    /\ \E r \in Results :
          /\ hr' = r
          /\ Report(r, "Start")
          /\ started' = (started \/ Ok(r))
          /\ IF FAILED(r)
             THEN /\ CHECK_HR(r, "Start", "done", {})
                  /\ UNCHANGED <<bufferPosition, bpHist, exitBy>>
             ELSE /\ pc' = "done"
                  /\ fatal' = fatal
                  /\ held' = Unwind(held)
                  /\ exitBy' = "starved"
                  /\ bufferPosition' = 0
                  /\ bpHist' = Append(bpHist, 0)
    /\ Invoke("Start")
    /\ UNCHANGED <<active_, lifeVars,
                   cfgVars, devVars, position, queueBuffer, offset,
                   sigLeft, source, results, volApplied, committed, recov,
                   stopVars, pollEnd, timedOut>>

\* lines 346-349: Start, bufferPosition = 0, back to the loop head
StarvedStart ==
    /\ pc = "s_start"
    /\ \E r \in Results :
          /\ hr' = r
          /\ Report(r, "Start")
          /\ started' = (started \/ Ok(r))
          /\ CHECK_HR(r, "Start", "loop", {})
          /\ IF FAILED(r)
             THEN UNCHANGED <<bufferPosition, bpHist>>
             ELSE /\ bufferPosition' = 0
                  /\ bpHist' = Append(bpHist, 0)
    /\ Invoke("Start")
    /\ UNCHANGED <<active_, lifeVars,
                   cfgVars, devVars, position, queueBuffer, offset,
                   sigLeft, source, results, volApplied, committed, recov,
                   stopVars, loopGhost>>

(***************************************************************************)
(* The Lifecycle Controller: Player::stop() clears active_.                *)
(***************************************************************************)
StopSite(at) ==
    CASE at = "wait" -> "wait"
      [] at \in {"t_poll", "s_poll"} -> "poll"
      [] at \in {"GetPosition", "getPlayerChunk", "adjustVolume", "GetBuffer",
                 "ReleaseBuffer"} -> "iteration"
      [] at \in Exited -> "exited"
      [] OTHER -> "other"

\* the stop request: the signal is cleared, whatever it was
stop ==
    /\ active_' = FALSE
    /\ stopPc' = IF active_ THEN StopSite(pc) ELSE stopPc

RequestStop ==
    /\ stop
    /\ UNCHANGED <<pc, lifeVars, cfgVars, devVars, hr, bufVars, held, envVars,
                   histVars, retStop, waitRetsAfterStop, loopGhost, opFail,
                   fatal, ops, commitsAfterStop>>

\* variant: the destructor also clears the position of the render loop
Destructor_ClearsPosition ==
    /\ dtor = "none"
    /\ dtor' = IF active_ THEN "first" ELSE "second"
    /\ stop
    /\ bufferPosition' = 0
    /\ UNCHANGED <<pc, posFresh, cfgVars, devVars, hr, position, queueBuffer,
                   offset, held, envVars, histVars, retStop, waitRetsAfterStop,
                   loopGhost, opFail, fatal, ops, commitsAfterStop>>

\* lines 70-73: the destructor requests stop, once, whether or not stop was
\* requested before
Destructor ==
    /\ dtor = "none"
    /\ dtor' = IF active_ THEN "first" ELSE "second"
    /\ stop
    /\ UNCHANGED <<pc, posFresh, cfgVars, devVars, hr, bufVars, held, envVars,
                   histVars, retStop, waitRetsAfterStop, loopGhost, opFail,
                   fatal, ops, commitsAfterStop>>

(***************************************************************************)
(* Specifications.                                                         *)
(***************************************************************************)
Unscripted == [scripted |-> FALSE, rest |-> <<>>, k |-> 0]

\* the locals of worker() as declared, before the first call
Fresh ==
    /\ active_ = TRUE
    /\ device = FALSE
    /\ hr = S_OK
    /\ bufferFrameCount = 0
    /\ frequency = 0
    /\ position = 0
    /\ bufferPosition = 0
    /\ queueBuffer = [chunk |-> 0, vol |-> 0]
    /\ offset = 0
    /\ held = {"waveformat", "waveformatExtended"}
    /\ started = FALSE
    /\ ops = <<>>
    /\ pollEnd = "none"
    /\ exitBy = "none"
    /\ timedOut = FALSE
    /\ opFail = "none"
    /\ fatal = "none"
    /\ stopPc = "none"
    /\ retStop = FALSE
    /\ commitsAfterStop = 0
    /\ waitRetsAfterStop = 0
    /\ results = <<>>
    /\ bpHist = <<>>
    /\ volApplied = <<>>
    /\ committed = <<>>
    /\ recov = 0
    /\ dtor = "none"
    /\ posFresh = FALSE

Init ==
    /\ Fresh
    /\ pc = "CoCreateInstance"
    /\ idx \in DeviceIndexes
    /\ sampleRate \in SampleRates
    /\ sigLeft = MaxIter
    /\ source = Unscripted

Setup ==
    \/ CoCreate \/ GetDevice \/ Activate \/ IsFormatSupported
    \/ GetDevicePeriod \/ Initialize \/ AlignGetBufferSize \/ AlignActivate
    \/ AlignInitialize \/ CreateEvent \/ SetEventHandle \/ GetBufferSize
    \/ GetRenderService \/ GetClockService \/ SetThreadCharacteristics
    \/ Start \/ GetFrequency

Render ==
    \/ LoopHead \/ PacingWait \/ TimeoutLog \/ TimeoutStop \/ TimeoutReset
    \/ TimeoutPollCheck \/ TimeoutPoll \/ TimeoutStart \/ Check \/ GetPosition
    \/ GetPlayerChunk \/ AdjustVolume \/ GetBuffer \/ ReleaseBuffer
    \/ StarvedStop \/ StarvedReset \/ StarvedPollCheck \/ StarvedPoll
    \/ StarvedStart

Worker == Setup \/ Render

Next == Worker \/ RequestStop \/ Destructor

Spec == Init /\ [][Next]_vars

\* the render thread is scheduled, and every call it makes returns
FairSpec == Spec /\ WF_vars(Worker)

\* a poll of the source during a recovery reports data
DataArrives == (TimeoutPoll \/ StarvedPoll) /\ pollEnd' = "data"

\* the source does not stay empty for ever while it is polled
RecoverySpec == FairSpec /\ SF_vars(DataArrives)

\* the scenario of the end-to-end test: k chunks, one starvation, k chunks,
\* with exactly the pacing signals those requests need
Script(k) == [i \in 1..(2 * k + 1) |-> i # k + 1]

ScenarioInit ==
    /\ Fresh
    /\ pc = "CoCreateInstance"
    /\ idx \in DeviceIndexes
    /\ sampleRate \in SampleRates
    /\ \E k \in 1..MaxK :
          /\ source = [scripted |-> TRUE, rest |-> Script(k), k |-> k]
          /\ sigLeft = 2 * k + 1

ScenarioSpec == ScenarioInit /\ [][Next]_vars

\* the chunk request alone, on inputs drawn from the Drift sets

DriftInit ==
    /\ pc = "getPlayerChunk"
    /\ active_ = TRUE
    /\ idx = 0
    /\ device = TRUE
    /\ hr = S_OK
    /\ sampleRate \in DriftRates
    /\ bufferFrameCount \in BufferSizes
    /\ frequency \in DriftFrequencies
    /\ position \in DriftTicks
    /\ bufferPosition \in DriftPositions
    /\ queueBuffer = [chunk |-> 0, vol |-> 0]
    /\ offset = 0
    /\ held = {"waveformat", "waveformatExtended", "deviceEnumerator", "device",
               "audioClient", "eventHandle", "renderClient", "clock",
               "taskHandle", "queueBuffer"}
    /\ started = TRUE
    /\ sigLeft = 0
    /\ source = Unscripted
    /\ ops = <<"GetPosition">>
    /\ pollEnd = "none"
    /\ exitBy = "none"
    /\ timedOut = FALSE
    /\ opFail = "none"
    /\ fatal = "none"
    /\ stopPc = "none"
    /\ retStop = FALSE
    /\ commitsAfterStop = 0
    /\ waitRetsAfterStop = 0
    /\ results = <<>>
    /\ bpHist = <<>>
    /\ volApplied = <<>>
    /\ committed = <<>>
    /\ recov = 0
    /\ dtor = "none"
    /\ posFresh = TRUE

DriftNext == GetPlayerChunk

DriftSpec == DriftInit /\ [][DriftNext]_vars

(***************************************************************************)
(* Properties.                                                             *)
(***************************************************************************)
IsPrefix(s, t) == Len(s) <= Len(t) /\ \A i \in 1..Len(s) : s[i] = t[i]

RecoveryOps == {<<"Stop", "Reset", "Start">>,
                <<"Stop", "Reset", "waitForChunk", "Start">>}

\* the tail of `s` from the first "Stop" on
RECURSIVE FromStop(_)
FromStop(s) ==
    IF s = <<>> \/ Head(s) = "Stop" THEN s ELSE FromStop(Tail(s))

\* C1: bufferPosition changes only by growing by bufferFrameCount in the step
\* that completes the commit of a delivered chunk, or by being set to zero in
\* the Start step that ends a recovery (after Stop, Reset and the poll).
C1_BufferPositionSteps ==
    [][bufferPosition' # bufferPosition =>
          \/ /\ pc = "ReleaseBuffer"
             /\ pc' = "loop"
             /\ Last(results)
             /\ committed' = Append(committed, queueBuffer)
             /\ bufferPosition' = bufferPosition + bufferFrameCount
          \/ /\ pc \in {"t_start", "s_start"}
             /\ bufferPosition' = 0
             /\ FromStop(ops') \in RecoveryOps]_vars

C1_Witness ==
    /\ pc = "loop"
    /\ Len(bpHist) >= 3
    /\ bpHist[1] = bufferFrameCount
    /\ bpHist[2] = 2 * bufferFrameCount
    /\ bpHist[3] = 0

\* C2: when the loop is back at its head after a starved request whose
\* recovery poll ended with data, bufferPosition is 0, the endpoint is started
\* and since the request it was called exactly Stop, Reset, Start, in that
\* order, with no commit.
C2_StarvationRecovery ==
    (pc = "loop" /\ results # <<>> /\ ~Last(results) /\ pollEnd = "data") =>
        /\ bufferPosition = 0
        /\ started
        /\ ops = <<"GetPosition", "getPlayerChunk", "Stop", "Reset",
                   "waitForChunk", "Start">>

C2_Witness ==
    /\ pc = "loop"
    /\ active_
    /\ Len(results) >= 2
    /\ results[1]
    /\ ~Last(results)
    /\ pollEnd = "data"
    /\ bufferPosition = 0

\* C3: once stop is requested while the render thread is inside the pacing
\* wait or a recovery poll, no GetBuffer/ReleaseBuffer is called any more, no
\* second wait returns, and the worker ends.
C3_StopWhileBlocked ==
    /\ [](stopPc \in {"wait", "poll"} =>
             commitsAfterStop = 0 /\ waitRetsAfterStop <= 1)
    /\ (stopPc \in {"wait", "poll"}) ~> (pc \in Exited)

C3_Witness ==
    /\ stopPc = "poll"
    /\ waitRetsAfterStop = 1
    /\ pc = "done"

\* C4: after the pacing wait has returned with the stop signal set, no
\* operation is invoked on the endpoint.
C4_StopAfterWaitTouchesNothing == retStop => ops = <<>>

\* exact floor(x * 1000000 / r) in plain integers: x = a*r + b gives
\* a * f1*f2*f3 + floor(b * f1 * f2*f3 / r), one factor at a time
RECURSIVE MulDivFloor(_, _, _)
MulDivFloor(x, fs, r) ==
    IF fs = <<>> THEN x \div r
    ELSE LET rest == Tail(fs)
             prod == IF rest = <<>> THEN Head(fs)
                     ELSE IF Len(rest) = 1 THEN Head(fs) * rest[1]
                     ELSE Head(fs) * rest[1] * rest[2]
         IN  (x \div r) * prod + MulDivFloor((x % r) * Head(fs), rest, r)

Micros(x, r) == MulDivFloor(x, <<100, 100, 100>>, r)

\* C5: the time offset passed to getPlayerChunk is the signed difference of
\* the two truncated quotients, negative when the hardware term is the
\* larger one, and +500000 for rate 48000, position 48000 frames, 5000000
\* ticks at 10000000 ticks per second.
C5_DriftIsSignedDifference ==
    pc \in {"adjustVolume", "s_stop"} =>
        /\ offset = Micros(bufferPosition, sampleRate)
                      - Micros(position, frequency)
        /\ (/\ sampleRate = 48000
            /\ bufferPosition = 48000
            /\ position = 5000000
            /\ frequency = 10000000) => offset = 500000

C5_Witness ==
    /\ pc = "adjustVolume"
    /\ Micros(position, frequency) > Micros(bufferPosition, sampleRate)
    /\ bufferPosition > 0
    /\ offset < 0

\* C6: after a pacing timeout the worker only stops and resets the endpoint,
\* polls the source until data or stop, starts the endpoint, zeroes
\* bufferPosition and returns; it waits, requests and commits no more.
C6_TimeoutEndsWorker ==
    timedOut =>
        /\ pc \in {"timeout", "t_stop", "t_reset", "t_pollchk", "t_poll",
                   "t_start", "done", "thrown"}
        /\ \E full \in RecoveryOps : IsPrefix(ops, full)
        /\ pc = "t_start" => pollEnd \in {"data", "stop"}
        /\ pc = "thrown" => opFail \in {"Stop", "Reset", "Start"}
        /\ pc = "done" =>
              /\ exitBy = "timeout"
              /\ ops \in RecoveryOps
              /\ bufferPosition = 0
              /\ pollEnd \in {"data", "stop"}
              /\ pollEnd = "stop" => ~active_

C6_Witness ==
    /\ timedOut
    /\ pc = "done"
    /\ active_
    /\ pollEnd = "data"
    /\ Len(bpHist) >= 2

\* C7 as stated: a worker that ended although no operation failed had
\* observed the stop signal.
C7_ExitOnlyOnStop ==
    (pc \in Exited /\ opFail = "none") =>
        /\ pc = "done"
        /\ ~active_
        /\ exitBy \in {"head", "check"} \/ pollEnd = "stop"

\* C7 amended: a worker that ended although no operation failed had observed
\* the stop signal or had seen a pacing wait time out.
C7_ExitOnStopOrTimeout ==
    (pc \in Exited /\ opFail = "none") =>
        /\ pc = "done"
        /\ \/ exitBy \in {"head", "check"} /\ ~active_
           \/ exitBy = "timeout" /\ timedOut

C7_Witness ==
    /\ pc = "done"
    /\ opFail = "none"
    /\ exitBy = "timeout"
    /\ active_

Tolerated == {"none", "unchecked"}

C9_TransientAbsorbed == pc \in {"thrown", "crashed"} => opFail # "none"

C9_Witness ==
    /\ pc = "done"
    /\ timedOut
    /\ recov >= 2
    /\ opFail = "none"

\* the values bufferPosition takes in the scenario with k and Period n
Expected(k, n) ==
    [i \in 1..(2 * k + 1) |->
        IF i <= k THEN n * i ELSE IF i = k + 1 THEN 0 ELSE n * (i - k - 1)]

\* C10: in the scenario, while no pacing wait has timed out, bufferPosition
\* takes the values n, 2n, ..., kn, 0, n, ..., kn in this order, there is at
\* most one recovery, and the volume transform is applied once to each
\* delivered chunk in turn; when all 2k+1 requests have been served all of
\* it has happened and the 2k chunks were committed, each adjusted once.
C10_Scenario ==
    LET k == source.k
        n == bufferFrameCount
    IN  ~timedOut =>
          /\ IsPrefix(bpHist, Expected(k, n))
          /\ recov <= 1
          /\ volApplied = [i \in 1..Len(volApplied) |-> i]
          /\ committed = [i \in 1..Len(committed) |-> [chunk |-> i, vol |-> 1]]
          /\ Len(committed) <= Len(volApplied)
          /\ Len(volApplied) = Delivered(results) - (IF pc = "adjustVolume" THEN 1 ELSE 0)
          /\ (pc = "loop" /\ Len(results) = 2 * k + 1) =>
                /\ bpHist = Expected(k, n)
                /\ recov = 1
                /\ Len(volApplied) = 2 * k
                /\ Len(committed) = 2 * k

C10_Witness ==
    /\ pc = "loop"
    /\ source.k = MaxK
    /\ Len(results) = 2 * MaxK + 1
    /\ bufferPosition = MaxK * 480
    /\ Len(volApplied) = 2 * MaxK

C12_RestartOnlyOnData ==
    (recov > 0 /\ ops # <<>> /\ Last(ops) = "Start" /\ started) =>
        pollEnd = "data"

\* C13: when the worker has returned or thrown, nothing it acquired is still
\* held: the client session, the render and clock services, the event
\* handle, the task-priority token and the format blocks are all released.
C13_AllReleased == pc \in {"done", "thrown"} => held = {}

IterationOps == <<"GetPosition", "getPlayerChunk", "adjustVolume", "GetBuffer",
                  "ReleaseBuffer">>

StarvedOps == <<"GetPosition", "getPlayerChunk", "Stop", "Reset",
                "waitForChunk", "Start">>

\* C14: in an iteration, since the pacing wait returned signaled and the stop
\* signal was checked, the calls made are GetPosition, getPlayerChunk and,
\* for a delivered chunk only, adjustVolume, GetBuffer, ReleaseBuffer, in this
\* order; the time offset of the request is the one of a position that
\* GetPosition wrote in this same iteration; a starved iteration applies no
\* volume, commits nothing and does not advance bufferPosition.
C14_IterationOrder ==
    /\ pc = "getPlayerChunk" => ops = SubSeq(IterationOps, 1, 1)
    /\ pc = "adjustVolume" => ops = SubSeq(IterationOps, 1, 2)
    /\ pc = "GetBuffer" =>
          /\ ops = SubSeq(IterationOps, 1, 3)
          /\ Last(volApplied) = queueBuffer.chunk
    /\ pc = "ReleaseBuffer" => ops = SubSeq(IterationOps, 1, 4)
    /\ pc \in {"adjustVolume", "GetBuffer", "ReleaseBuffer"} =>
          /\ Last(results)
          /\ Len(committed) = Delivered(results) - 1
    /\ pc \in {"adjustVolume", "GetBuffer", "ReleaseBuffer", "s_stop"} =>
          /\ ~retStop
          /\ offset = CurrentOffset
          /\ posFresh
    /\ pc \in {"s_stop", "s_reset", "s_pollchk", "s_poll", "s_start"} =>
          /\ ~Last(results)
          /\ IsPrefix(ops, StarvedOps) \/ IsPrefix(ops, <<"GetPosition",
                 "getPlayerChunk", "Stop", "Reset", "Start">>)
          /\ Len(volApplied) = Delivered(results)
          /\ Len(committed) = Delivered(results)
          /\ bpHist = <<>> \/ Last(bpHist) = bufferPosition

StarvedPcs == {"s_stop", "s_reset", "s_pollchk", "s_poll", "s_start"}

\* C15: the recovery entered through the starved branch is left, and it is
\* left only to the loop head with the endpoint started, after the polling
\* ended on data or on the stop signal, or by the exception of a failed Stop,
\* Reset or Start; a poll that reports no data goes back to the stop check.
C15_RecoveryEnds ==
    /\ (pc \in StarvedPcs) ~> ((pc = "loop" /\ started) \/ pc \in Exited)
    /\ [][(pc \in StarvedPcs /\ pc' \notin StarvedPcs) =>
              \/ pc' = "loop" /\ started' /\ pollEnd' \in {"data", "stop"}
              \/ pc' = "thrown" /\ fatal' \in {"Stop", "Reset", "Start"}]_vars
    /\ [][(pc = "s_poll" /\ pc' # pc) => pc' \in {"s_pollchk", "s_start"}]_vars

C15_Witness ==
    /\ pc = "loop"
    /\ started
    /\ pollEnd = "data"
    /\ ~Last(results)
    /\ active_
    /\ sigLeft > 0

\* C16: the check of the stop signal that sees it set is the last one the
\* loop makes: the worker goes on to no further check but ends; after the
\* signal was set at most one commit (one GetBuffer and one ReleaseBuffer) is
\* made, and only when it was set after the post-wait check of an iteration;
\* and the worker does not return between GetBuffer and ReleaseBuffer.
C16_CooperativeCancel ==
    /\ pollEnd = "stop" => pc \in {"t_start", "s_start", "done", "thrown"}
    /\ commitsAfterStop <= 2
    /\ commitsAfterStop > 0 => stopPc = "iteration"
    /\ (pc = "done" /\ ops # <<>>) => Last(ops) # "GetBuffer"
    /\ (pc = "thrown" /\ ops # <<>> /\ Last(ops) = "GetBuffer") =>
          fatal = "GetBuffer"

\* C17: Start is called only on a stopped endpoint and Stop only on a started
\* one, so that they alternate from the Start before the loop on; Reset is
\* called only on a stopped endpoint; GetPosition, GetBuffer and
\* ReleaseBuffer are called only on a started one.
C17_StartStopProtocol ==
    [][(ops' # ops /\ ops' # <<>>) =>
          /\ Last(ops') = "Start" => ~started
          /\ Last(ops') = "Stop" => started
          /\ Last(ops') = "Reset" => ~started
          /\ Last(ops') \in {"GetPosition", "GetBuffer", "ReleaseBuffer"} =>
                started]_vars

C17_Witness ==
    /\ pc = "loop"
    /\ started
    /\ Len(results) >= 3
    /\ results[1]
    /\ ~results[2]
    /\ results[3]
    /\ Len(committed) = 2

=============================================================================
